---- MODULE Spec2Model ----
(***************************************************************************)
(* Model of worker/handler/handler.go: the HandlerSet registry, the        *)
(* per-function Handler state machine (RunStart / RunFinish / nuke), the   *)
(* orphan reaper (killOrphans), and the HandlerLRU the Handler calls into. *)
(*                                                                         *)
(* The HandlerLRU type (NewHandlerLRU, Add, Remove) is not part of         *)
(* handler.go; its operators below follow the design document (4.3).       *)
(* The sandbox, the sandbox factory, the registry manager and the pool     *)
(* manager are collaborators: every call on them either succeeds with the  *)
(* documented effect or fails, chosen nondeterministically.                *)
(***************************************************************************)
EXTENDS Integers, Sequences, FiniteSets, TLC

\* ------------------------------------------------------------- bounds

NumClients == 2
NumNames == 2
MaxUsage == 2
MaxFails == 1
MaxCount == 3

\* opts.Handler_cache_size, passed to NewHandlerLRU
Capacity == 2

Clients == 1..NumClients
Names == 1..NumNames
\* Handler objects: n is the first Handler allocated for name n, n + NumNames a
\* second one
HandlerIds == 1..(2 * NumNames)

Free == 0
ReaperId == NumClients + 1

\* state.HandlerState
Unitialized == "Unitialized"
Running == "Running"
Paused == "Paused"
Stopped == "Stopped"

VARIABLES
    poolMgr,     \* HandlerSet.poolMgr # nil
    mutex,       \* HandlerSet.mutex: Free or its holder
    handlers,    \* HandlerSet.handlers: name -> Handler id, 0 when absent
    heap,        \* the Handler objects (name 0: not allocated)
    hmutex,      \* Handler.mutex of every Handler object
    sbState,     \* the runtime state of each Handler's sandbox object
    lru,         \* HandlerSet.lru: sequence of Handler ids, oldest first
    hhits, ihits, misses,    \* the shared counters
    pc, arg, local, ref,     \* per caller: position, Get's name, Get's handler, held Handler
    rpc, rTodo,  \* killOrphans: position, Handlers still to visit in this scan
    pullCalls, createCalls,  \* calls made on regMgr.Pull / sbFactory.Create per Handler
    readySeen,   \* a RunStart has seen <sandboxDir>/ol.sock of the Handler's sandbox
    fails        \* collaborator failures so far

vars == <<poolMgr, mutex, handlers, heap, hmutex, sbState, lru,
          hhits, ihits, misses, pc, arg, local, ref, rpc, rTodo,
          pullCalls, createCalls, readySeen, fails>>

\* ------------------------------------------------------------ Handler

\* a Handler object that Get has not allocated
NoHandler ==
    [name |-> 0, sandbox |-> 0, lastPull |-> 0, state |-> Unitialized,
     runners |-> 0, codeDir |-> 0, pkgs |-> {}, fs |-> 0, usage |-> 0]

\* the Handler literal of Get
NewHandler(n) ==
    [name |-> n, sandbox |-> 0, lastPull |-> 0, state |-> Unitialized,
     runners |-> 0, codeDir |-> 0, pkgs |-> {}, fs |-> 0, usage |-> 0]

Allocated == {h \in HandlerIds : heap[h].name # 0}

\* the object a new Handler for name n is allocated at
Fresh(n) == IF heap[n].name = 0 THEN n ELSE n + NumNames

\* ------------------------------------------------------------ Sandbox

SbStart(s) == IF s = "stopped" THEN "running" ELSE s
SbUnpause(s) == IF s = "paused" THEN "running" ELSE s
SbPause(s) == IF s = "running" THEN "paused" ELSE s
SbStop(s) == IF s \in {"running", "paused", "stopped"} THEN "stopped" ELSE s
SbRemove(s) == "removed"

\* Sandbox.State() of a sandbox the factory just returned
StateOf(s) ==
    CASE s = "stopped" -> Stopped
      [] s = "paused" -> Paused
      [] OTHER -> Running

\* registry.Pull(name): the code directory and the package list of the name
CodeDirOf(n) == n
PkgsOf(n) == {n}

\* ---------------------------------------------------------- HandlerLRU
\* (design 4.3; the type itself is not in handler.go)

RECURSIVE SumUsage(_, _)
SumUsage(q, hp) ==
    IF q = <<>> THEN 0 ELSE hp[Head(q)].usage + SumUsage(Tail(q), hp)

InLRU(q, h) == \E i \in 1..Len(q) : q[i] = h

\* Remove(handler): removes the handler if present, no-op if absent
LRURemove(q, h) == SelectSeq(q, LAMBDA x : x # h)

\* Add(handler): inserts or moves the handler to the most-recently-used end
LRUAdd(q, h) == Append(LRURemove(q, h), h)

\* faulty variant of LRUVictim: eviction takes the most recently paused member
LRUVictimNewest(q) == q[Len(q)]

\* the member eviction tears down next: the least recently paused one
LRUVictim(q) == Head(q)

\* Add keeps evicting while usage exceeds capacity and a member older than
\* the one being added remains
LRUMustEvict(q, hp, self) ==
    /\ q # <<>>
    /\ SumUsage(q, hp) > Capacity
    /\ LRUVictim(q) # self

\* ----------------------------------------------------------------- Init

Init ==
    /\ poolMgr \in BOOLEAN
    /\ mutex = Free
    /\ handlers = [n \in Names |-> 0]
    /\ heap = [h \in HandlerIds |-> NoHandler]
    /\ hmutex = [h \in HandlerIds |-> Free]
    /\ sbState = [h \in HandlerIds |-> "none"]
    /\ lru = <<>>
    /\ hhits = 0
    /\ ihits = 0
    /\ misses = 0
    /\ pc = [c \in Clients |-> "idle"]
    /\ arg = [c \in Clients |-> 0]
    /\ local = [c \in Clients |-> 0]
    /\ ref = [c \in Clients |-> 0]
    /\ rpc = "sleep"
    /\ rTodo = {}
    /\ pullCalls = [h \in HandlerIds |-> 0]
    /\ createCalls = [h \in HandlerIds |-> 0]
    /\ readySeen = [h \in HandlerIds |-> FALSE]
    /\ fails = 0

\* ----------------------------------------------------------- HandlerSet

\* faulty variant of HSetLockFree: Get does not wait for the registry lock
HSetLockIgnored(m) == TRUE

\* h.mutex.Lock() returns only when nobody holds the registry lock
HSetLockFree(m) == m = Free

\* Get, up to the read of h.handlers[name]
GetLock(c, n) ==
    /\ pc[c] = "idle"
    /\ HSetLockFree(mutex)
    /\ mutex' = c
    /\ arg' = [arg EXCEPT ![c] = n]
    /\ local' = [local EXCEPT ![c] = handlers[n]]
    /\ pc' = [pc EXCEPT ![c] = "inGet"]
    /\ UNCHANGED <<poolMgr, handlers, heap, hmutex, sbState, lru,
                   hhits, ihits, misses, ref, rpc, rTodo, readySeen, pullCalls, createCalls, fails>>

\* Get, from the nil test to the deferred Unlock
GetReturn(c) ==
    /\ pc[c] = "inGet"
    /\ IF local[c] = 0
       THEN /\ heap[Fresh(arg[c])].name = 0
            /\ heap' = [heap EXCEPT ![Fresh(arg[c])] = NewHandler(arg[c])]
            /\ handlers' = [handlers EXCEPT ![arg[c]] = Fresh(arg[c])]
            /\ ref' = [ref EXCEPT ![c] = Fresh(arg[c])]
       ELSE /\ ref' = [ref EXCEPT ![c] = local[c]]
            /\ UNCHANGED <<heap, handlers>>
    /\ mutex' = Free
    /\ local' = [local EXCEPT ![c] = 0]
    /\ arg' = [arg EXCEPT ![c] = 0]
    /\ pc' = [pc EXCEPT ![c] = "got"]
    /\ UNCHANGED <<poolMgr, hmutex, sbState, lru, hhits, ihits, misses,
                   rpc, rTodo, readySeen, pullCalls, createCalls, fails>>

\* ------------------------------------------------------------- RunStart

\* The collaborator call that fails during one RunStart ("none": no call fails),
\* the state the factory's new sandbox reports, and the pool manager's hit flag.
FailPoints ==
    {"none", "pull", "mkdir", "create", "state", "start", "unpause",
     "container", "provision", "timeout", "channel"}

Oracles == [fail : FailPoints, init : {"stopped", "paused", "running"}, hit : BOOLEAN]

\* faulty variant of NeedPull: the code is fetched on every RunStart
NeedPullAlways(h) == TRUE

\* if h.lastPull == nil
NeedPull(h) == h.lastPull = 0

\* faulty variant of AfterPull: the fetch is recorded before its error is looked at
AfterPullUnchecked(h, ok) == [h EXCEPT !.lastPull = 1]

\* the Handler after regMgr.Pull returned: on an error nothing is recorded, else
\* lastPull, codeDir and pkgs are
AfterPull(h, ok) ==
    IF ok
    THEN [h EXCEPT !.lastPull = 1, !.codeDir = CodeDirOf(h.name), !.pkgs = PkgsOf(h.name)]
    ELSE h

\* if h.sandbox == nil
NeedCreate(h) == h.sandbox = 0

\* faulty variant of Admit: the state is left as it was
AdmitKeepState(h) == [h EXCEPT !.runners = @ + 1]

\* h.state = state.Running; h.runners += 1
Admit(h) == [h EXCEPT !.state = Running, !.runners = @ + 1]

\* the counters <<hhits, ihits, misses>> after a sandbox was created and provisioned
CountCreate(cnt, hit) ==
    IF hit THEN <<cnt[1], cnt[2] + 1, cnt[3]>> ELSE <<cnt[1], cnt[2], cnt[3] + 1>>

\* faulty variant of CountHit: an existing sandbox is counted as a miss
CountHitAsMiss(cnt) == <<cnt[1], cnt[2], cnt[3] + 1>>

\* the counters after RunStart found an existing sandbox
CountHit(cnt) == <<cnt[1] + 1, cnt[2], cnt[3]>>

\* One RunStart on Handler object h whose sandbox (if any) is in state sbs,
\* with the collaborators behaving as oracle o; newSb identifies the sandbox the
\* factory would return.  The result holds the Handler afterwards, its sandbox's state,
\* the counters, and what RunStart did on the way.
\* A failing State() is taken to return the zero HandlerState (Unitialized)
\* beside its error; Unpause on a sandbox that is not paused changes nothing.
RunStartOutcome(h, sbs, cnt, o, pm, newSb) ==
    LET needPull == NeedPull(h)
        pullErr == needPull /\ o.fail = "pull"
        h1 == IF needPull THEN AfterPull(h, ~pullErr) ELSE h
        \* create sandbox if needed
        needCreate == ~pullErr /\ NeedCreate(h1)
        mkdirErr == needCreate /\ o.fail = "mkdir"
        createErr == needCreate /\ ~mkdirErr /\ o.fail = "create"
        created == needCreate /\ ~mkdirErr /\ ~createErr
        stateErr == created /\ o.fail = "state"
        st == IF stateErr THEN Unitialized ELSE StateOf(o.init)
        h2 == IF created THEN [h1 EXCEPT !.sandbox = newSb, !.state = st] ELSE h1
        startErr == created /\ ~stateErr /\ st = Stopped /\ o.fail = "start"
        unpauseErrNew == created /\ ~stateErr /\ st = Paused /\ o.fail = "unpause"
        up == created /\ ~stateErr /\ ~startErr /\ ~unpauseErrNew
        sbNew == IF ~up THEN o.init
                 ELSE IF st = Stopped THEN SbStart(o.init)
                 ELSE IF st = Paused THEN SbUnpause(o.init)
                 ELSE o.init
        containerErr == up /\ pm /\ o.fail = "container"
        provisionErr == up /\ pm /\ ~containerErr /\ o.fail = "provision"
        provisioned == up /\ pm /\ ~containerErr /\ ~provisionErr
        h3 == IF provisioned THEN [h2 EXCEPT !.fs = 1]
              ELSE IF provisionErr THEN [h2 EXCEPT !.fs = 0]
              ELSE h2
        counted == up /\ ~containerErr /\ ~provisionErr
        timeoutErr == counted /\ o.fail = "timeout"
        \* a sandbox exists
        existing == ~pullErr /\ ~NeedCreate(h1)
        wasPaused == existing /\ h.state = Paused
        unpauseErr == wasPaused /\ o.fail = "unpause"
        unpaused == wasPaused /\ ~unpauseErr
        proceed == (counted /\ ~timeoutErr) \/ (existing /\ ~unpauseErr)
        channelErr == proceed /\ o.fail = "channel"
        h4 == IF proceed THEN Admit(h3) ELSE h3
    IN  [h |-> h4,
         sbs |-> IF created THEN sbNew ELSE IF unpaused THEN SbUnpause(sbs) ELSE sbs,
         cnt |-> IF counted THEN CountCreate(cnt, provisioned /\ o.hit)
                 ELSE IF existing THEN CountHit(cnt)
                 ELSE cnt,
         pulled |-> needPull,
         createCalled |-> needCreate /\ ~mkdirErr,
         created |-> created,
         lruRemove |-> unpaused,
         ready |-> counted /\ ~timeoutErr,
         err |-> \/ pullErr \/ mkdirErr \/ createErr \/ stateErr \/ startErr
                 \/ unpauseErrNew \/ containerErr \/ provisionErr \/ timeoutErr
                 \/ unpauseErr \/ channelErr]

\* h.mutex.Lock() returns only when nobody holds the Handler's lock
HandlerLockFree(m) == m = Free

\* RunStart, from Lock to the deferred Unlock
RunStart(c) ==
    /\ pc[c] \in {"got", "failed"}
    /\ HandlerLockFree(hmutex[ref[c]])
    /\ hhits + ihits + misses < MaxCount
    /\ \E o \in Oracles :
        LET h == ref[c]
            r == RunStartOutcome(heap[h], sbState[h], <<hhits, ihits, misses>>, o,
                                 poolMgr, createCalls[h] + 1)
        IN  /\ (o.fail # "none") = r.err
            /\ r.err => fails < MaxFails
            /\ fails' = IF r.err THEN fails + 1 ELSE fails
            /\ heap' = [heap EXCEPT ![h] = r.h]
            /\ sbState' = [sbState EXCEPT ![h] = r.sbs]
            /\ hhits' = r.cnt[1]
            /\ ihits' = r.cnt[2]
            /\ misses' = r.cnt[3]
            /\ lru' = IF r.lruRemove THEN LRURemove(lru, h) ELSE lru
            /\ pullCalls' = [pullCalls EXCEPT ![h] = @ + (IF r.pulled THEN 1 ELSE 0)]
            /\ createCalls' = [createCalls EXCEPT ![h] = @ + (IF r.createCalled THEN 1 ELSE 0)]
            /\ pc' = [pc EXCEPT ![c] = IF r.err THEN "failed" ELSE "admitted"]
            /\ readySeen' = [readySeen EXCEPT ![h] = @ \/ r.ready]
    /\ UNCHANGED <<poolMgr, mutex, handlers, hmutex, arg, local, ref, rpc, rTodo>>

\* ------------------------------------------------------------ RunFinish

\* faulty variant of Finish: the decrement is applied twice
FinishTwice(h) == [h EXCEPT !.runners = @ - 2]

\* h.runners -= 1
Finish(h) == [h EXCEPT !.runners = @ - 1]

\* faulty variant of MarkPaused: the state is left as it was
MarkPausedSkipped(h) == h

\* the last runner left: h.state = state.Paused
MarkPaused(h) == [h EXCEPT !.state = Paused]

\* RunFinish, from Lock to the insertion made by lru.Add.  The Handler's lock
\* stays held while Add evicts; when runners stay positive the deferred Unlock
\* runs at once.
RunFinish(c) ==
    /\ pc[c] = "admitted"
    /\ HandlerLockFree(hmutex[ref[c]])
    /\ LET h == ref[c]
           h1 == Finish(heap[h])
       IN  IF h1.runners = 0
           THEN \E pauseOk \in BOOLEAN, u \in 1..MaxUsage :
                   /\ ~pauseOk => fails < MaxFails
                   /\ fails' = IF pauseOk THEN fails ELSE fails + 1
                   /\ sbState' = IF pauseOk
                                 THEN [sbState EXCEPT ![h] = SbPause(@)]
                                 ELSE sbState
                   /\ heap' = [heap EXCEPT ![h] = [MarkPaused(h1) EXCEPT !.usage = u]]
                   /\ lru' = LRUAdd(lru, h)
                   /\ hmutex' = [hmutex EXCEPT ![h] = c]
                   /\ pc' = [pc EXCEPT ![c] = "evicting"]
           ELSE /\ heap' = [heap EXCEPT ![h] = h1]
                /\ pc' = [pc EXCEPT ![c] = "got"]
                /\ UNCHANGED <<fails, sbState, lru, hmutex>>
    /\ UNCHANGED <<poolMgr, mutex, handlers, hhits, ihits, misses,
                   arg, local, ref, rpc, rTodo, readySeen, pullCalls, createCalls>>

\* nuke: Unpause, Stop, Remove on the sandbox, results ignored
Nuke(s) == SbRemove(SbStop(SbUnpause(s)))

\* lru.Add evicts the least recently paused member: under that member's lock it
\* leaves the LRU and its sandbox is torn down
EvictOne(c) ==
    /\ pc[c] = "evicting"
    /\ LRUMustEvict(lru, heap, ref[c])
    /\ LET v == LRUVictim(lru)
       IN  /\ HandlerLockFree(hmutex[v])
           /\ lru' = LRURemove(lru, v)
           /\ sbState' = [sbState EXCEPT ![v] = Nuke(@)]
    /\ UNCHANGED <<poolMgr, mutex, handlers, heap, hmutex, hhits, ihits,
                   misses, pc, arg, local, ref, rpc, rTodo, readySeen, pullCalls, createCalls, fails>>

\* lru.Add returns and RunFinish's deferred Unlock runs
EvictDone(c) ==
    /\ pc[c] = "evicting"
    /\ ~LRUMustEvict(lru, heap, ref[c])
    /\ hmutex' = [hmutex EXCEPT ![ref[c]] = Free]
    /\ pc' = [pc EXCEPT ![c] = "got"]
    /\ UNCHANGED <<poolMgr, mutex, handlers, heap, sbState, lru, hhits,
                   ihits, misses, arg, local, ref, rpc, rTodo, readySeen, pullCalls, createCalls,
                   fails>>

\* ---------------------------------------------------------- killOrphans

\* handler.sandbox != nil && handler.fs == nil
IsOrphan(h) == h.sandbox # 0 /\ h.fs = 0

\* the Sleep and the h.mutex.Lock() that open a scan; the Unlock is deferred to
\* the return of killOrphans, which never returns
ReaperLock ==
    /\ poolMgr
    /\ rpc = "sleep"
    /\ HSetLockFree(mutex)
    /\ mutex' = ReaperId
    /\ rpc' = "scan"
    /\ rTodo' = {handlers[n] : n \in Names} \ {0}
    /\ UNCHANGED <<poolMgr, handlers, heap, hmutex, sbState, lru, hhits,
                   ihits, misses, pc, arg, local, ref, readySeen, pullCalls, createCalls, fails>>

\* one pass of the range loop: lock the Handler; an orphan sends the reaper to
\* the second h.mutex.Lock() with the Handler's lock held, any other Handler is
\* unlocked again
ReaperVisit(h) ==
    /\ rpc = "scan"
    /\ h \in rTodo
    /\ HandlerLockFree(hmutex[h])
    /\ IF IsOrphan(heap[h])
       THEN /\ hmutex' = [hmutex EXCEPT ![h] = ReaperId]
            /\ rpc' = "relock"
            /\ UNCHANGED rTodo
       ELSE /\ rTodo' = rTodo \ {h}
            /\ UNCHANGED <<hmutex, rpc>>
    /\ UNCHANGED <<poolMgr, mutex, handlers, heap, sbState, lru, hhits,
                   ihits, misses, pc, arg, local, ref, readySeen, pullCalls, createCalls, fails>>

\* the range loop is over: back to the top of the for loop, the registry lock
\* still held
ReaperLoop ==
    /\ rpc = "scan"
    /\ rTodo = {}
    /\ rpc' = "sleep"
    /\ UNCHANGED <<poolMgr, mutex, handlers, heap, hmutex, sbState, lru,
                   hhits, ihits, misses, pc, arg, local, ref, rTodo, readySeen, pullCalls,
                   createCalls, fails>>

\* At "relock" the reaper waits for the registry lock it holds itself; nothing
\* releases it, so the unlink, the drain wait and the go nuke() never run.

\* ----------------------------------------------------------------- Spec

Next ==
    \/ \E c \in Clients, n \in Names : GetLock(c, n)
    \/ \E c \in Clients : GetReturn(c)
    \/ \E c \in Clients : RunStart(c)
    \/ \E c \in Clients : RunFinish(c)
    \/ \E c \in Clients : EvictOne(c)
    \/ \E c \in Clients : EvictDone(c)
    \/ ReaperLock
    \/ \E h \in HandlerIds : ReaperVisit(h)
    \/ ReaperLoop

Spec == Init /\ [][Next]_vars

\* ================================================================ claims

Admitted(h) == {c \in Clients : ref[c] = h /\ pc[c] = "admitted"}

\* C1: for every name, at most one Handler object is ever created, the registry
\* maps the name to it, and every Get call for the name returned that object.
C1_OneHandlerPerName ==
    /\ \A h1, h2 \in Allocated : heap[h1].name = heap[h2].name => h1 = h2
    /\ \A n \in Names : handlers[n] # 0 => heap[handlers[n]].name = n
    /\ \A h \in Allocated : handlers[heap[h].name] = h
    /\ \A c \in Clients : ref[c] # 0 => ref[c] \in Allocated

\* two Get calls for one name have returned, to different callers
C1_Witness ==
    \E c1, c2 \in Clients : c1 # c2 /\ ref[c1] # 0 /\ ref[c1] = ref[c2]

\* C2: with RunFinish called once per successful RunStart and never after a
\* failed one, every Handler has runners >= 0, and runners > 0 only in state
\* Running.
C2_RunnersInvariant ==
    \A h \in Allocated :
        /\ heap[h].runners >= 0
        /\ heap[h].runners > 0 => heap[h].state = Running

\* a Handler went through RunStart, RunFinish down to zero, and RunStart again
C2_Witness ==
    \E h \in Allocated : heap[h].runners = 1 /\ heap[h].usage > 0 /\ Admitted(h) # {}

\* C3: whenever RunStart returns successfully, the Handler's sandbox is running
\* and runners >= 1.
C3_AdmittedSandboxRunning ==
    [][\A c \in Clients :
          (RunStart(c) /\ pc'[c] = "admitted")
          => /\ sbState'[ref[c]] = "running"
             /\ heap'[ref[c]].runners >= 1]_vars

\* C4: outside its lock, a Handler is in the LRU exactly when it is Paused with
\* no runners.
C4_LRUMembership ==
    \A h \in Allocated :
        hmutex[h] = Free
        => (InLRU(lru, h) <=> (heap[h].state = Paused /\ heap[h].runners = 0))

\* C5: while no collaborator call has failed, each Handler has seen at most one
\* Pull and one Create (exactly one of each once it has a sandbox), and its
\* runners equal the number of callers whose RunStart returned and who have not
\* called RunFinish yet.
C5_FetchAndCreateOnce ==
    fails = 0 =>
        \A h \in Allocated :
            /\ pullCalls[h] = (IF heap[h].lastPull = 0 THEN 0 ELSE 1)
            /\ createCalls[h] = (IF heap[h].sandbox = 0 THEN 0 ELSE 1)
            /\ heap[h].runners = Cardinality(Admitted(h))

\* NumClients concurrent first callers were all admitted on one new Handler
C5_Witness ==
    \E h \in Allocated :
        /\ fails = 0
        /\ Admitted(h) = Clients
        /\ heap[h].runners = NumClients
        /\ pullCalls[h] = 1
        /\ createCalls[h] = 1
        /\ hhits = NumClients - 1

\* the Handler fields RunStart's unpause path must leave alone
SameCode(h) ==
    /\ heap'[h].sandbox = heap[h].sandbox
    /\ heap'[h].codeDir = heap[h].codeDir
    /\ heap'[h].pkgs = heap[h].pkgs
    /\ heap'[h].lastPull = heap[h].lastPull
    /\ pullCalls'[h] = pullCalls[h]
    /\ createCalls'[h] = createCalls[h]

\* what RunStart's unpause path does when it goes through
Revived(h) ==
    /\ heap'[h].state = Running
    /\ heap'[h].runners = heap[h].runners + 1
    /\ ~InLRU(lru', h)
    /\ sbState'[h] = SbUnpause(sbState[h])

OnPausedSandbox(c) ==
    RunStart(c) /\ heap[ref[c]].sandbox # 0 /\ heap[ref[c]].state = Paused

\* C6 as stated: every RunStart on a Handler with a sandbox and state Paused
\* makes no Pull and no Create, unpauses the sandbox, removes the Handler from
\* the LRU, sets state Running and adds one runner, and leaves sandbox, codeDir,
\* pkgs and lastPull unchanged.
C6_UnpauseAlwaysRevives ==
    [][\A c \in Clients :
          OnPausedSandbox(c) => SameCode(ref[c]) /\ Revived(ref[c])]_vars

\* C6 amended: such a RunStart makes no Pull and no Create and leaves sandbox,
\* codeDir, pkgs and lastPull unchanged; when the sandbox's Unpause succeeds it
\* removes the Handler from the LRU, sets state Running and adds one runner;
\* when Unpause fails it returns the error with the Handler, the sandbox and
\* the LRU unchanged.
C6_UnpauseRevivesUnlessItFails ==
    [][\A c \in Clients :
          OnPausedSandbox(c)
          => /\ SameCode(ref[c])
             /\ pc'[c] = "admitted" => Revived(ref[c])
             /\ \/ Revived(ref[c])
                \/ /\ pc'[c] = "failed"
                   /\ heap' = heap
                   /\ lru' = lru
                   /\ sbState' = sbState]_vars

\* a Handler that was paused (put in the LRU) is running again with one runner
C6_Witness ==
    \E h \in Allocated :
        /\ heap[h].usage > 0
        /\ heap[h].state = Running
        /\ heap[h].runners = 1
        /\ Admitted(h) # {}
        /\ sbState[h] = "running"
        /\ ~InLRU(lru, h)
        /\ pullCalls[h] = 1
        /\ createCalls[h] = 1

\* C7: the reaper does not carry the registry lock from one scan into the next:
\* whenever it is back at the top of its loop, it does not hold the lock (so a
\* Get or Dump caller can take it).
C7_ReaperReleasesRegistryLock ==
    rpc = "sleep" => mutex # ReaperId

\* C8: RunFinish takes one runner off; at zero it calls Pause, sets state Paused
\* and puts the Handler at the most-recently-paused end of the LRU, and reports
\* no error even when Pause fails; above zero it changes neither the state, nor
\* the sandbox, nor the LRU.
C8_RunFinishEffect ==
    [][\A c \in Clients :
          RunFinish(c)
          => LET h == ref[c]
             IN  /\ heap'[h].runners = heap[h].runners - 1
                 /\ heap'[h].sandbox = heap[h].sandbox
                 /\ pc'[c] # "failed"
                 /\ IF heap'[h].runners = 0
                    THEN /\ heap'[h].state = Paused
                         /\ lru' # <<>>
                         /\ lru'[Len(lru')] = h
                         /\ \/ sbState'[h] = SbPause(sbState[h])
                            \/ fails' = fails + 1 /\ sbState'[h] = sbState[h]
                    ELSE /\ heap'[h].state = heap[h].state
                         /\ sbState' = sbState
                         /\ lru' = lru]_vars

\* a RunFinish whose Pause failed: the Handler is Paused and in the LRU while
\* its sandbox still runs
C8_Witness ==
    \E h \in Allocated :
        /\ heap[h].state = Paused
        /\ heap[h].runners = 0
        /\ InLRU(lru, h)
        /\ sbState[h] = "running"

CountersGrow == hhits' >= hhits /\ ihits' >= ihits /\ misses' >= misses

CreateCounted ==
    /\ hhits' = hhits
    /\ \/ ihits' = ihits + 1 /\ misses' = misses
       \/ ihits' = ihits /\ misses' = misses + 1
    /\ ~poolMgr => misses' = misses + 1

HitCounted == hhits' = hhits + 1 /\ ihits' = ihits /\ misses' = misses

\* the sandbox this RunStart created is running, with its pool binding when a
\* pool manager is configured
BroughtUp(h) ==
    /\ heap'[h].state # Unitialized
    /\ sbState'[h] = "running"
    /\ poolMgr => heap'[h].fs # 0

\* C10 as stated: the counters never decrease; a RunStart that creates the
\* sandbox adds one to exactly one of import-hit and miss (miss without a pool
\* manager) and leaves handler-hit; a RunStart that finds a sandbox adds one to
\* handler-hit and leaves the other two.
C10_EveryCreateCounted ==
    [][/\ CountersGrow
       /\ \A c \in Clients :
             RunStart(c)
             => LET h == ref[c]
                IN  /\ (heap[h].sandbox = 0 /\ heap'[h].sandbox # 0) => CreateCounted
                    /\ heap[h].sandbox # 0 => HitCounted]_vars

\* C10 amended: the counters never decrease; a RunStart that creates the
\* sandbox and gets it running (and provisioned, with a pool manager) adds one
\* to exactly one of import-hit and miss (miss without a pool manager) and
\* leaves handler-hit, also when it then fails on the readiness wait or on
\* Channel; a RunStart that fails before that point changes no counter; a
\* RunStart that finds a sandbox adds one to handler-hit and leaves the other
\* two.
C10_CountersPerRunStart ==
    [][/\ CountersGrow
       /\ \A c \in Clients :
             RunStart(c)
             => LET h == ref[c]
                IN  /\ (heap[h].sandbox = 0 /\ heap'[h].sandbox # 0 /\ BroughtUp(h))
                       => CreateCounted
                    /\ (heap[h].sandbox = 0 /\ ~(heap'[h].sandbox # 0 /\ BroughtUp(h)))
                       => (hhits' = hhits /\ ihits' = ihits /\ misses' = misses)
                    /\ heap[h].sandbox # 0 => HitCounted]_vars

\* one creation counted as an import hit, one as a miss, and one handler hit
C10_Witness ==
    poolMgr /\ ihits = 1 /\ misses = 1 /\ hhits = 1

\* ------------------------------------------------------- claims C11..C20

\* a RunStart by c that returned an error
RunStartFailed(c) == RunStart(c) /\ pc'[c] = "failed"

\* the sandbox of h is torn down (nuke) in this step
TornDown(h) == sbState[h] # "removed" /\ sbState'[h] = "removed"

\* C11: a RunStart whose Pull fails returns the error, creates no sandbox and
\* leaves the Handler as it was: lastPull unset, no sandbox, Unitialized, runners
\* unchanged; a Handler without lastPull is always in that state, and one with
\* lastPull has its code, so the next RunStart fetches again exactly when the
\* fetch has not succeeded yet.
C11_PullFailureLeavesHandler ==
    /\ [][\A c \in Clients :
             (RunStart(c) /\ pullCalls'[ref[c]] = pullCalls[ref[c]] + 1
                /\ heap'[ref[c]].lastPull = 0)
             => /\ pc'[c] = "failed"
                /\ heap' = heap
                /\ sbState' = sbState
                /\ createCalls' = createCalls]_vars
    /\ [](\A h \in Allocated :
             /\ heap[h].lastPull = 0
                => /\ heap[h].sandbox = 0
                   /\ heap[h].state = Unitialized
                   /\ heap[h].runners = 0
                   /\ heap[h].codeDir = 0
                   /\ sbState[h] = "none"
             /\ heap[h].lastPull # 0
                => /\ heap[h].codeDir = CodeDirOf(heap[h].name)
                   /\ heap[h].pkgs = PkgsOf(heap[h].name))

\* a Pull failed and the next RunStart fetched again, successfully
C11_Witness ==
    \E h \in Allocated : pullCalls[h] = 2 /\ heap[h].lastPull # 0 /\ createCalls[h] = 1

\* C12: a RunStart that fails while creating the sandbox or bringing the new
\* sandbox up (directory setup, Create, State, Start, Unpause) leaves the
\* Handler Unitialized with no sandbox recorded.
C12_CreationFailureLeavesUninitialized ==
    [][\A c \in Clients :
          (RunStartFailed(c) /\ heap[ref[c]].sandbox = 0 /\ heap'[ref[c]].lastPull # 0
             /\ (sbState'[ref[c]] # "running" \/ heap'[ref[c]].state = Unitialized))
          => /\ heap'[ref[c]].sandbox = 0
             /\ heap'[ref[c]].state = Unitialized]_vars

\* C13: the reaper never waits for the registry lock while it holds that lock,
\* and never goes for the lock of a Handler whose lock it holds.
C13_ReaperNeverRelocks ==
    /\ rpc = "relock" => mutex # ReaperId
    /\ rpc = "scan" => \A h \in rTodo : hmutex[h] # ReaperId

C15_TeardownExcludesAdmission ==
    [][/\ \A h \in HandlerIds : TornDown(h) => heap[h].runners = 0
       /\ \A c \in Clients :
             (RunStart(c) /\ sbState[ref[c]] = "removed") => pc'[c] # "admitted"]_vars

\* C16: eviction tears down only a Handler that is Paused with no runners (one
\* a RunStart revived first is skipped), and no Handler is both evicted and
\* Running with runners > 0.
C16_EvictedNeverRunning ==
    /\ [][\A h \in HandlerIds :
             TornDown(h) => (heap[h].state = Paused /\ heap[h].runners = 0
                               /\ hmutex[h] = Free)]_vars
    /\ [](\A h \in Allocated :
             ~(sbState[h] = "removed" /\ heap[h].state = Running /\ heap[h].runners > 0))

Procs == Clients \cup {ReaperId}

\* the holder of the lock process p waits for (or would wait for on its next
\* call), Free when p can go on
WaitsOn(p) ==
    IF p = ReaperId
    THEN IF poolMgr /\ rpc \in {"relock", "sleep"} THEN mutex ELSE Free
    ELSE IF pc[p] = "evicting" /\ LRUMustEvict(lru, heap, ref[p])
         THEN hmutex[LRUVictim(lru)]
    ELSE IF pc[p] \in {"got", "failed", "admitted"}
         THEN hmutex[ref[p]]
    ELSE Free

RECURSIVE ChainNeverEnds(_, _)
ChainNeverEnds(p, n) ==
    IF p = Free THEN FALSE
    ELSE IF n = 0 THEN TRUE
    ELSE ChainNeverEnds(WaitsOn(p), n - 1)

\* p waits on a chain of lock holders that closes into a cycle
BehindLockCycle(p) == ChainNeverEnds(WaitsOn(p), Cardinality(Procs))

\* C17: no caller in RunStart or RunFinish (the eviction inside lru.Add
\* included) waits on a chain of lock holders that closes into a cycle.
C17_NoLockCycle ==
    \A c \in Clients : ~BehindLockCycle(c)

\* C18: a Handler's state changes only Unitialized -> Running, Running ->
\* Paused, Paused -> Running, or into Stopped by teardown; a torn-down Handler
\* is Stopped.
C18_StateMachine ==
    /\ [][\A h \in HandlerIds :
             heap'[h].state # heap[h].state
             => \/ <<heap[h].state, heap'[h].state>> \in
                      {<<Unitialized, Running>>, <<Running, Paused>>, <<Paused, Running>>}
                \/ heap'[h].state = Stopped /\ TornDown(h)]_vars
    /\ [](\A h \in Allocated : sbState[h] = "removed" => heap[h].state = Stopped)

\* C19: a RunStart that returns an error leaves runners as it was.
C19_FailedRunStartKeepsRunners ==
    [][\A c \in Clients :
          RunStartFailed(c) => heap'[ref[c]].runners = heap[ref[c]].runners]_vars

\* C20: a RunStart returns successfully only on a sandbox whose readiness marker
\* a RunStart has seen.
C20_AdmittedOnlyWhenReady ==
    [][\A c \in Clients :
          (RunStart(c) /\ pc'[c] = "admitted") => readySeen'[ref[c]]]_vars

====
